---- MODULE Spec2Model ----
(***************************************************************************)
(* Model of pmacc::SimulationHelper (SimulationHelper.hpp): the control    *)
(* loop of startSimulation, the checkpoint sequence of dumpOneStep and the *)
(* signal handling of checkSignals, run by NProc MPI ranks that interact   *)
(* only through MPI_Iallreduce (signal communicator) and MPI_Barrier.      *)
(***************************************************************************)
EXTENDS Integers, Sequences, FiniteSets, TLC

\* ------------------------------------------------------------------ bounds
NProc == 2
MaxSteps == 2
MaxSignals == 2
MaxSoftRestarts == 1
MaxFill == 1
MaxScheduleSteps == 10
MaxFileLen == 4

Ranks == 0..(NProc - 1)

\* ------------------------------------------------- period scheduler (pure)
\* the open end of a slice given by its period only: the largest step value
\* (the largest integer of the checker stands for the largest uint32_t; every
\* step of the model is far below both)
LastStep == 2147483647

\* pluginSystem::TimeSlice(start, end): a slice with period 1
TimeSlice(start, end) == [start |-> start, end |-> end, period |-> 1]

\* one token of the period string: "p", "s:e" or "s:e:p", as its numbers
ParseSlice(tok) ==
    IF Len(tok) = 1 THEN [start |-> 0, end |-> LastStep, period |-> tok[1]]
    ELSE IF Len(tok) = 2 THEN [start |-> tok[1], end |-> tok[2], period |-> 1]
    ELSE [start |-> tok[1], end |-> tok[2], period |-> tok[3]]

\* pluginSystem::toTimeSlice: the comma separated tokens, in order
toTimeSlice(str) == [i \in 1..Len(str) |-> ParseSlice(str[i])]

\* pluginSystem::containsStep
containsStep(seq, step) ==
    \E i \in 1..Len(seq) :
        /\ step >= seq[i].start
        /\ step <= seq[i].end
        /\ (step - seq[i].start) % seq[i].period = 0

\* the values of --checkpoint.period the model draws from:
\* "" (no period), "2" (every 2nd step) and "1:1" (step 1 only)
PeriodStrings == { <<>>, << <<2>> >>, << <<1, 1>> >> }

\* the values of --checkpoint.period of the runs without signals:
\* "3" (every 3rd step), "5" and "1:7:2" (every 2nd step from 1 to 7)
SchedulePeriodStrings == { << <<3>> >>, << <<5>> >>, << <<1, 7, 2>> >> }

\* ------------------------------------------------- checkpoint master file
\* The file is a sequence of characters; "nl" is the newline character.
Digits == <<"0", "1", "2", "3", "4", "5", "6", "7", "8", "9">>

IsDigit(c) == \E d \in 1..10 : Digits[d] = c

DigitVal(c) == (CHOOSE d \in 1..10 : Digits[d] = c) - 1

\* operator<< of an uint32_t into the stream: its decimal digits
RECURSIVE ToDecimal(_)
ToDecimal(n) ==
    IF n < 10 THEN <<Digits[n + 1]>>
    ELSE Append(ToDecimal(n \div 10), Digits[(n % 10) + 1])

\* the step written without the end of the line
AppendLineNoNewline(file, step) == file \o ToDecimal(step)

\* file << checkpointStep << std::endl on a stream opened for append
AppendLine(file, step) == file \o ToDecimal(step) \o <<"nl">>

\* std::getline until the end of the file: the text between newlines, and
\* the text after the last newline when there is some
RECURSIVE SplitLines(_, _, _)
SplitLines(file, cur, acc) ==
    IF file = <<>> THEN (IF cur = <<>> THEN acc ELSE Append(acc, cur))
    ELSE IF Head(file) = "nl"
         THEN SplitLines(Tail(file), <<>>, Append(acc, cur))
         ELSE SplitLines(Tail(file), Append(cur, Head(file)), acc)

RECURSIVE Decimal(_, _)
Decimal(digits, acc) ==
    IF digits = <<>> THEN acc
    ELSE Decimal(Tail(digits), 10 * acc + DigitVal(Head(digits)))

\* boost::lexical_cast<uint32_t>(line): an optional sign and at least one
\* digit, nothing else; a negative number is converted, not rejected, to the
\* value 2^32 - v.  An uint32_t is represented by the integer with the same
\* 32 bits, so 2^32 - v is -v.  (The lines of the model are too short to
\* overflow 32 bits.)
LexicalCast(line) ==
    LET signed == line # <<>> /\ Head(line) \in {"-", "+"}
        digits == IF signed THEN Tail(line) ELSE line
        ok == digits # <<>> /\ \A i \in 1..Len(digits) : IsDigit(digits[i])
        v == IF ok THEN Decimal(digits, 0) ELSE 0
    IN  [ok |-> ok, value |-> IF signed /\ Head(line) = "-" THEN 0 - v ELSE v]

RECURSIVE ParseLines(_, _)
ParseLines(lines, acc) ==
    IF lines = <<>> THEN acc
    ELSE IF Head(lines) = <<>> THEN ParseLines(Tail(lines), acc)
    ELSE IF LexicalCast(Head(lines)).ok
         THEN ParseLines(Tail(lines), Append(acc, LexicalCast(Head(lines)).value))
         ELSE ParseLines(Tail(lines), acc)

\* readCheckpointMasterFile
readCheckpointMasterFile(exists, file) ==
    IF ~exists THEN <<>> ELSE ParseLines(SplitLines(file, <<>>, <<>>), <<>>)

\* the characters of the files the read is tried on
FileChars == {"0", "7", "-", "x", "nl"}

RECURSIVE FilesUpTo(_)
FilesUpTo(n) ==
    IF n = 0 THEN {<<>>}
    ELSE LET shorter == FilesUpTo(n - 1)
         IN  shorter \cup { Append(f, c) : f \in shorter, c \in FileChars }

\* ------------------------------------------------------------------- state
VARIABLES
    checkpointPeriod,        \* the period string (configuration)
    softRestarts,            \* configuration
    restartRequested,        \* configuration
    fillStep,                \* what fillSimulation() returns
    cfgRunSteps,             \* --steps, the configured runSteps
    pc,                      \* position of each rank in startSimulation
    nthSoftRestart,
    currentStep,
    runSteps,                \* SimulationDescription().getRunSteps() per rank
    seqCheckpointPeriod,
    numCheckpoints,
    handleSignalAtStep,
    signalMaxTimestep,
    signalMPI,               \* round of the request held, 0 = MPI_REQUEST_NULL
    signalCreateCheckpoint,
    signalStopSimulation,
    gStatusCreateCheckpoint, \* pending flags of the signal module
    gStatusStopSimulation,
    iallreduce,              \* per rank: the values it contributed, by round
    outstanding,             \* per rank: rounds launched, result not taken
    barrierCalls,            \* per rank: number of MPI_Barrier calls entered
    masterFile,              \* checkpoints.txt: its characters
    fileExists,              \* checkpoints.txt exists
    dirCalls,                \* per rank: calls of createDirectoryWithPermissions
    dirCreations,            \* number of times the directory was created
    writeFailed,             \* history: writeCheckpointStep has thrown
    checkpoints,             \* result of readCheckpointMasterFile
    readPc,                  \* "idle", or "read" after the file was read
    initCalls,               \* history: calls of init() per rank
    nFills,                  \* history: calls of fillSimulation() per rank
    trace,                   \* history: the calls of the current iteration
    ranStep,                 \* history: last step given to runOneStep, or -1
    nSignals,                \* signals delivered so far (bounds the model)
    applied,                 \* history: decisions each rank applied
    ckptAt,                  \* history: <<cycle, step>> of checkpoints begun
    lateSignal,              \* history: a signal arrived during a round
    lateHandled              \* history: such a signal launched a round

config == <<checkpointPeriod, softRestarts, restartRequested, fillStep,
            cfgRunSteps>>
loopVars == <<pc, nthSoftRestart, currentStep, runSteps>>
ckptVars == <<seqCheckpointPeriod, numCheckpoints, barrierCalls, masterFile,
              ckptAt>>
fsVars == <<fileExists, dirCalls, dirCreations, writeFailed>>
readVars == <<checkpoints, readPc>>
histVars == <<initCalls, nFills, trace, ranStep>>
sigVars == <<handleSignalAtStep, signalMaxTimestep, signalMPI,
             signalCreateCheckpoint, signalStopSimulation, iallreduce,
             outstanding, applied, lateHandled>>
envVars == <<gStatusCreateCheckpoint, gStatusStopSimulation, nSignals,
             lateSignal>>
vars == <<config, loopVars, ckptVars, sigVars, envVars, fsVars, readVars,
          histVars>>

\* state after construction and pluginLoad, whatever the configuration
InitState ==
    /\ pc = [p \in Ranks |-> "start"]
    /\ nthSoftRestart = [p \in Ranks |-> 0]
    /\ currentStep = [p \in Ranks |-> 0]
    /\ runSteps = [p \in Ranks |-> cfgRunSteps]
    /\ seqCheckpointPeriod = [p \in Ranks |-> <<>>]
    /\ numCheckpoints = [p \in Ranks |-> 0]
    /\ handleSignalAtStep = [p \in Ranks |-> 0]
    /\ signalMaxTimestep = [p \in Ranks |-> 0]
    /\ signalMPI = [p \in Ranks |-> 0]
    /\ signalCreateCheckpoint = [p \in Ranks |-> FALSE]
    /\ signalStopSimulation = [p \in Ranks |-> FALSE]
    /\ gStatusCreateCheckpoint = [p \in Ranks |-> FALSE]
    /\ gStatusStopSimulation = [p \in Ranks |-> FALSE]
    /\ iallreduce = [p \in Ranks |-> <<>>]
    /\ outstanding = [p \in Ranks |-> {}]
    /\ barrierCalls = [p \in Ranks |-> 0]
    /\ nSignals = 0
    /\ applied = [p \in Ranks |-> <<>>]
    /\ ckptAt = [p \in Ranks |-> {}]
    /\ lateSignal = [p \in Ranks |-> FALSE]
    /\ lateHandled = [p \in Ranks |-> FALSE]
    /\ dirCalls = [p \in Ranks |-> 0]
    /\ dirCreations = 0
    /\ writeFailed = FALSE
    /\ checkpoints = <<>>
    /\ readPc = "idle"
    /\ initCalls = [p \in Ranks |-> 0]
    /\ nFills = [p \in Ranks |-> 0]
    /\ trace = [p \in Ranks |-> <<>>]
    /\ ranStep = [p \in Ranks |-> 0 - 1]

\* a run that signals may reach, with no master file yet
Init ==
    /\ checkpointPeriod \in PeriodStrings
    /\ softRestarts \in 0..MaxSoftRestarts
    /\ restartRequested \in BOOLEAN
    /\ fillStep \in IF restartRequested THEN 0..MaxFill ELSE {0}
    /\ cfgRunSteps \in 1..MaxSteps
    /\ masterFile = <<>>
    /\ fileExists = FALSE
    /\ InitState

\* ------------------------------------------------------------- collectives
SetMax(S) == CHOOSE m \in S : \A x \in S : x <= m

\* MPI_Iallreduce: round k completes once every rank has made its k-th call
RoundComplete(k) == \A q \in Ranks : Len(iallreduce[q]) >= k

\* MPI_MAX over the k-th contributions
RoundMax(k) == SetMax({ iallreduce[q][k] : q \in Ranks })

\* MPI_Test on signalMPI: a null request tests as complete
TestSignalMPI(p) == signalMPI[p] = 0 \/ RoundComplete(signalMPI[p])

\* a barrier that does not wait for the other ranks
BarrierPassedAlone(p) == TRUE

\* MPI_Barrier: the k-th call returns once every rank entered its k-th call
BarrierPassed(p) == \A q \in Ranks : barrierCalls[q] >= barrierCalls[p]

\* a round of p is in flight: launched, and its result not yet applied
InFlight(p) == outstanding[p] # {}

\* ------------------------------------------------------------ signal module
\* signal::received()
received(p) == gStatusCreateCheckpoint[p] \/ gStatusStopSimulation[p]

\* The signal handler: the environment raises a checkpoint request, a stop
\* request, or both within one debounce window.
\* A pending flag is read by the next call of checkSignals only, so a signal
\* is delivered right before such a call; every other arrival time leaves
\* the same flags to the same call.
Signal(p, kind) ==
    /\ nSignals < MaxSignals
    /\ pc[p] = "notify"
    /\ nSignals' = nSignals + 1
    /\ gStatusCreateCheckpoint' = [gStatusCreateCheckpoint EXCEPT
           ![p] = @ \/ kind \in {"checkpoint", "both"}]
    /\ gStatusStopSimulation' = [gStatusStopSimulation EXCEPT
           ![p] = @ \/ kind \in {"stop", "both"}]
    /\ lateSignal' = [lateSignal EXCEPT ![p] = @ \/ InFlight(p)]
    /\ UNCHANGED <<config, fsVars, readVars, histVars, loopVars, ckptVars,
                   sigVars>>

\* ------------------------------------------------------------ checkSignals
\* handleSignals without the test against handleSignalAtStep
handleSignalsAnyStep(p) == TRUE

\* line 429
handleSignals(p) == handleSignalAtStep[p] < currentStep[p] \/ currentStep[p] = 0

\* the test of line 478 without currentStep != 0
applyNowAnyStep(p, h) == h = currentStep[p]

\* line 478
applyNow(p, h) == currentStep[p] # 0 /\ h = currentStep[p]

\* The send buffer of MPI_Iallreduce is handleSignalAtStep itself: a launch
\* overwrites it while earlier rounds of this rank may still be incomplete,
\* so such a round contributes the old or the new value.
Contributions(p, v) ==
    { Append(s, v) : s \in
        { [k \in 1..Len(iallreduce[p]) |->
              IF k \in outstanding[p] /\ ~RoundComplete(k) /\ k \in K
              THEN v ELSE iallreduce[p][k]] : K \in SUBSET outstanding[p] } }

\* checkSignals called before the plugins are notified
notifyEventsSwapped == <<"checkSignals", "notifyPlugins">>

\* lines 136 and 140: the plugins are notified, then checkSignals is called
notifyEvents == <<"notifyPlugins", "checkSignals">>

\* notifyPlugins: the plugins, then checkSignals up to the wait (lines 429-478)
NotifyPlugins(p) ==
    /\ pc[p] = "notify"
    /\ trace' = [trace EXCEPT ![p] = @ \o notifyEvents]
    /\ IF handleSignals(p) /\ received(p)
       THEN /\ handleSignalAtStep' =
                   [handleSignalAtStep EXCEPT ![p] = currentStep[p] + 1]
            /\ \E s \in Contributions(p, currentStep[p] + 1) :
                   iallreduce' = [iallreduce EXCEPT ![p] = s]
            /\ signalMPI' = [signalMPI EXCEPT ![p] = Len(iallreduce[p]) + 1]
            /\ outstanding' =
                   [outstanding EXCEPT ![p] = @ \cup {Len(iallreduce[p]) + 1}]
            /\ signalCreateCheckpoint' = [signalCreateCheckpoint EXCEPT
                   ![p] = @ \/ gStatusCreateCheckpoint[p]]
            /\ signalStopSimulation' = [signalStopSimulation EXCEPT
                   ![p] = @ \/ gStatusStopSimulation[p]]
            /\ gStatusCreateCheckpoint' =
                   [gStatusCreateCheckpoint EXCEPT ![p] = FALSE]
            /\ gStatusStopSimulation' =
                   [gStatusStopSimulation EXCEPT ![p] = FALSE]
            /\ lateHandled' = [lateHandled EXCEPT ![p] = @ \/ lateSignal[p]]
            /\ lateSignal' = [lateSignal EXCEPT ![p] = FALSE]
       ELSE /\ UNCHANGED <<handleSignalAtStep, iallreduce, signalMPI,
                           outstanding, signalCreateCheckpoint,
                           signalStopSimulation, gStatusCreateCheckpoint,
                           gStatusStopSimulation, lateHandled, lateSignal>>
    /\ pc' = [pc EXCEPT ![p] =
                 IF applyNow(p, handleSignalAtStep'[p]) THEN "wait" ELSE "dump"]
    /\ UNCHANGED <<config, fsVars, readVars, initCalls, nFills, ranStep,
                   nthSoftRestart, currentStep, runSteps, ckptVars,
                   signalMaxTimestep, applied, nSignals>>

\* the receive buffer signalMaxTimestep is shared by every round of this rank
\* whose result was not taken: it holds the result of one of them
Received(p) ==
    IF signalMPI[p] = 0 THEN {signalMaxTimestep[p]}
    ELSE { RoundMax(k) : k \in { j \in outstanding[p] : j <= signalMPI[p] } }

\* lines 491-499
ApplyCheckpoint(p, m) ==
    IF signalCreateCheckpoint[p]
    THEN Append(seqCheckpointPeriod[p], TimeSlice(m, m))
    ELSE seqCheckpointPeriod[p]

\* the stop request as an else-branch of the checkpoint request
ApplyStopElse(p, m) ==
    IF signalStopSimulation[p] /\ ~signalCreateCheckpoint[p]
    THEN m ELSE runSteps[p]

\* lines 500-506
ApplyStop(p, m) == IF signalStopSimulation[p] THEN m ELSE runSteps[p]

\* checkSignals from the wait on (lines 478-507)
WaitAndApply(p) ==
    /\ pc[p] = "wait"
    /\ TestSignalMPI(p)
    /\ \E m \in Received(p) :
        /\ signalMaxTimestep' = [signalMaxTimestep EXCEPT ![p] = m]
        /\ seqCheckpointPeriod' =
               [seqCheckpointPeriod EXCEPT ![p] = ApplyCheckpoint(p, m)]
        /\ runSteps' = [runSteps EXCEPT ![p] = ApplyStop(p, m)]
        /\ applied' = [applied EXCEPT ![p] =
               IF signalCreateCheckpoint[p] \/ signalStopSimulation[p]
               THEN Append(@, [round |-> signalMPI[p], step |-> m,
                               checkpoint |-> signalCreateCheckpoint[p],
                               stop |-> signalStopSimulation[p]])
               ELSE @]
    /\ signalCreateCheckpoint' = [signalCreateCheckpoint EXCEPT ![p] = FALSE]
    /\ signalStopSimulation' = [signalStopSimulation EXCEPT ![p] = FALSE]
    /\ signalMPI' = [signalMPI EXCEPT ![p] = 0]
    /\ outstanding' = [outstanding EXCEPT ![p] =
           IF signalMPI[p] = 0 THEN @ ELSE {}]
    /\ pc' = [pc EXCEPT ![p] = "dump"]
    /\ UNCHANGED <<config, fsVars, readVars, histVars, nthSoftRestart,
                   currentStep, numCheckpoints, barrierCalls, masterFile, ckptAt, handleSignalAtStep,
                   iallreduce, lateHandled, envVars>>

\* ------------------------------------------------------------- dumpOneStep
\* line 152, for a sequence of slices and a step
checkpointDueAt(seq, step) ==
    checkpointPeriod # <<>> /\ containsStep(seq, step)

\* line 152
checkpointDue(p) == checkpointDueAt(seqCheckpointPeriod[p], currentStep[p])

\* lines 152-165: the test, and the entry into the first barrier
DumpOneStep(p) ==
    /\ pc[p] = "dump"
    /\ trace' = [trace EXCEPT ![p] = Append(@, "dumpOneStep")]
    /\ IF checkpointDue(p)
       THEN /\ barrierCalls' = [barrierCalls EXCEPT ![p] = @ + 1]
            /\ ckptAt' = [ckptAt EXCEPT
                   ![p] = @ \cup {<<nthSoftRestart[p], currentStep[p]>>}]
            /\ pc' = [pc EXCEPT ![p] = "barrier1"]
       ELSE /\ UNCHANGED <<barrierCalls, ckptAt>>
            /\ pc' = [pc EXCEPT ![p] = "loop"]
    /\ UNCHANGED <<config, fsVars, readVars, initCalls, nFills, ranStep,
                   nthSoftRestart, currentStep, runSteps, seqCheckpointPeriod,
                   numCheckpoints, masterFile, sigVars, envVars>>

\* Filesystem().createDirectoryWithPermissions: the rank whose call creates
\* the directory
createsDirectory(p) == p = 0

\* lines 165-186: out of the first barrier, the directory at the first
\* checkpoint, the plugins' checkpoint, into the second barrier
CheckpointPlugins(p) ==
    /\ pc[p] = "barrier1"
    /\ BarrierPassed(p)
    /\ IF numCheckpoints[p] = 0
       THEN /\ dirCalls' = [dirCalls EXCEPT ![p] = @ + 1]
            /\ dirCreations' =
                   IF createsDirectory(p) THEN dirCreations + 1 ELSE dirCreations
       ELSE UNCHANGED <<dirCalls, dirCreations>>
    /\ barrierCalls' = [barrierCalls EXCEPT ![p] = @ + 1]
    /\ pc' = [pc EXCEPT ![p] = "barrier2"]
    /\ UNCHANGED <<config, fileExists, writeFailed, readVars, histVars,
                   nthSoftRestart,
                   currentStep, runSteps, seqCheckpointPeriod, numCheckpoints,
                   masterFile, ckptAt, sigVars, envVars>>

\* the end of the checkpoint sequence without numCheckpoints++
FinishCheckpointNoCount(p) ==
    /\ pc[p] = "barrier2"
    /\ BarrierPassed(p)
    /\ IF p = 0
       THEN /\ masterFile' = AppendLine(masterFile, currentStep[p])
            /\ fileExists' = TRUE
       ELSE UNCHANGED <<masterFile, fileExists>>
    /\ pc' = [pc EXCEPT ![p] = "loop"]
    /\ UNCHANGED <<config, dirCalls, dirCreations, writeFailed, readVars,
                   histVars, nthSoftRestart, currentStep, runSteps,
                   seqCheckpointPeriod, numCheckpoints, barrierCalls, ckptAt,
                   sigVars, envVars>>

\* the end of the checkpoint sequence without the test of the rank
FinishCheckpointAllWrite(p) ==
    /\ pc[p] = "barrier2"
    /\ BarrierPassed(p)
    /\ masterFile' = AppendLine(masterFile, currentStep[p])
    /\ fileExists' = TRUE
    /\ numCheckpoints' = [numCheckpoints EXCEPT ![p] = @ + 1]
    /\ pc' = [pc EXCEPT ![p] = "loop"]
    /\ UNCHANGED <<config, dirCalls, dirCreations, writeFailed, readVars,
                   histVars, nthSoftRestart, currentStep, runSteps,
                   seqCheckpointPeriod, barrierCalls, ckptAt, sigVars, envVars>>

\* lines 186-192: out of the second barrier, writeCheckpointStep on rank 0
\* and the count
FinishCheckpoint(p) ==
    /\ pc[p] = "barrier2"
    /\ BarrierPassed(p)
    /\ IF p = 0
       THEN /\ masterFile' = AppendLine(masterFile, currentStep[p])
            /\ fileExists' = TRUE
       ELSE UNCHANGED <<masterFile, fileExists>>
    /\ numCheckpoints' = [numCheckpoints EXCEPT ![p] = @ + 1]
    /\ pc' = [pc EXCEPT ![p] = "loop"]
    /\ UNCHANGED <<config, dirCalls, dirCreations, writeFailed, readVars,
                   histVars,
                   nthSoftRestart, currentStep, runSteps, seqCheckpointPeriod,
                   barrierCalls, ckptAt, sigVars, envVars>>

\* the failure to open the master file swallowed: the run goes on
WriteCheckpointStepIgnored(p) ==
    /\ pc[p] = "barrier2"
    /\ BarrierPassed(p)
    /\ p = 0
    /\ writeFailed' = TRUE
    /\ numCheckpoints' = [numCheckpoints EXCEPT ![p] = @ + 1]
    /\ pc' = [pc EXCEPT ![p] = "loop"]
    /\ UNCHANGED <<config, fileExists, dirCalls, dirCreations, readVars,
                   histVars, nthSoftRestart, currentStep, runSteps,
                   seqCheckpointPeriod, barrierCalls, masterFile, ckptAt,
                   sigVars, envVars>>

\* lines 186-190 and 536-539: the master file cannot be opened; the exception
\* leaves dumpOneStep and startSimulation
WriteCheckpointStepFails(p) ==
    /\ pc[p] = "barrier2"
    /\ BarrierPassed(p)
    /\ p = 0
    /\ writeFailed' = TRUE
    /\ pc' = [pc EXCEPT ![p] = "failed"]
    /\ UNCHANGED <<config, fileExists, dirCalls, dirCreations, readVars,
                   histVars, nthSoftRestart, currentStep, runSteps, ckptVars,
                   sigVars, envVars>>

\* --------------------------------------------------------- startSimulation
\* lines 225-234: init() and the translation of the period string
StartSimulation(p) ==
    /\ pc[p] = "start"
    /\ initCalls' = [initCalls EXCEPT ![p] = @ + 1]
    /\ seqCheckpointPeriod' =
           [seqCheckpointPeriod EXCEPT ![p] = toTimeSlice(checkpointPeriod)]
    /\ pc' = [pc EXCEPT ![p] = "fill"]
    /\ UNCHANGED <<config, fsVars, readVars, nFills, trace, ranStep,
                   nthSoftRestart, currentStep, runSteps, numCheckpoints,
                   barrierCalls, masterFile, ckptAt, sigVars, envVars>>

\* lines 238-266: resetAll, fillSimulation, and the choice of the first call
FillSimulation(p) ==
    /\ pc[p] = "fill"
    /\ currentStep' = [currentStep EXCEPT ![p] = fillStep]
    /\ nFills' = [nFills EXCEPT ![p] = @ + 1]
    /\ trace' = [trace EXCEPT ![p] = <<>>]
    /\ ranStep' = [ranStep EXCEPT ![p] = 0 - 1]
    /\ pc' = [pc EXCEPT ![p] = IF restartRequested THEN "loop" ELSE "notify"]
    /\ UNCHANGED <<config, fsVars, readVars, initCalls, nthSoftRestart,
                   runSteps, ckptVars, sigVars, envVars>>

\* the loop with the test currentStep <= runSteps
RunOneStepInclusive(p) ==
    /\ pc[p] = "loop"
    /\ currentStep[p] <= runSteps[p]
    /\ currentStep' = [currentStep EXCEPT ![p] = @ + 1]
    /\ trace' = [trace EXCEPT ![p] = <<"runOneStep", "increment">>]
    /\ ranStep' = [ranStep EXCEPT ![p] = currentStep[p]]
    /\ pc' = [pc EXCEPT ![p] = "notify"]
    /\ UNCHANGED <<config, fsVars, readVars, initCalls, nFills,
                   nthSoftRestart, runSteps, ckptVars, sigVars, envVars>>

\* lines 277-289: the loop test, runOneStep and the increment
RunOneStep(p) ==
    /\ pc[p] = "loop"
    /\ currentStep[p] < runSteps[p]
    /\ currentStep' = [currentStep EXCEPT ![p] = @ + 1]
    /\ trace' = [trace EXCEPT ![p] = <<"runOneStep", "increment">>]
    /\ ranStep' = [ranStep EXCEPT ![p] = currentStep[p]]
    /\ pc' = [pc EXCEPT ![p] = "notify"]
    /\ UNCHANGED <<config, fsVars, readVars, initCalls, nFills,
                   nthSoftRestart, runSteps, ckptVars, sigVars, envVars>>

\* the for loop of the repeats with the test nthSoftRestart < softRestarts
EndOfRunExclusive(p) ==
    /\ pc[p] = "loop"
    /\ ~(currentStep[p] < runSteps[p])
    /\ nthSoftRestart' = [nthSoftRestart EXCEPT ![p] = @ + 1]
    /\ pc' = [pc EXCEPT ![p] =
                 IF nthSoftRestart[p] + 1 < softRestarts THEN "fill" ELSE "done"]
    /\ UNCHANGED <<config, fsVars, readVars, histVars, currentStep, runSteps,
                   ckptVars, sigVars, envVars>>

\* lines 277, 301-312 and 236: the loop ends, the tasks drain, next repeat
EndOfRun(p) ==
    /\ pc[p] = "loop"
    /\ ~(currentStep[p] < runSteps[p])
    /\ nthSoftRestart' = [nthSoftRestart EXCEPT ![p] = @ + 1]
    /\ pc' = [pc EXCEPT ![p] =
                 IF nthSoftRestart[p] + 1 <= softRestarts THEN "fill" ELSE "done"]
    /\ UNCHANGED <<config, fsVars, readVars, histVars, currentStep, runSteps,
                   ckptVars, sigVars, envVars>>

\* readCheckpointMasterFile, called on the master file as it is
ReadMasterFile ==
    /\ readPc = "idle"
    /\ checkpoints' = readCheckpointMasterFile(fileExists, masterFile)
    /\ readPc' = "read"
    /\ UNCHANGED <<config, fsVars, histVars, loopVars, ckptVars, sigVars,
                   envVars>>

Next ==
    \E p \in Ranks :
        \/ \E kind \in {"checkpoint", "stop", "both"} : Signal(p, kind)
        \/ StartSimulation(p)
        \/ FillSimulation(p)
        \/ NotifyPlugins(p)
        \/ WaitAndApply(p)
        \/ DumpOneStep(p)
        \/ CheckpointPlugins(p)
        \/ FinishCheckpoint(p)
        \/ WriteCheckpointStepFails(p)
        \/ RunOneStep(p)
        \/ EndOfRun(p)

Spec == Init /\ [][Next]_vars

\* ------------------------------------------------- runs without signals
InitSchedule ==
    /\ checkpointPeriod \in SchedulePeriodStrings
    /\ softRestarts \in 0..MaxSoftRestarts
    /\ restartRequested \in BOOLEAN
    /\ fillStep \in IF restartRequested THEN 0..MaxFill ELSE {0}
    /\ cfgRunSteps \in (MaxScheduleSteps - 1)..MaxScheduleSteps
    /\ masterFile = <<>>
    /\ fileExists = FALSE
    /\ InitState

NextSchedule ==
    \E p \in Ranks :
        \/ StartSimulation(p)
        \/ FillSimulation(p)
        \/ NotifyPlugins(p)
        \/ DumpOneStep(p)
        \/ CheckpointPlugins(p)
        \/ FinishCheckpoint(p)
        \/ RunOneStep(p)
        \/ EndOfRun(p)

SpecSchedule == InitSchedule /\ [][NextSchedule]_vars

\* ------------------------------------------- reading a given master file
InitRead ==
    /\ checkpointPeriod = <<>>
    /\ softRestarts = 0
    /\ restartRequested = TRUE
    /\ fillStep = 0
    /\ cfgRunSteps = 1
    /\ fileExists \in BOOLEAN
    /\ masterFile \in IF fileExists THEN FilesUpTo(MaxFileLen) ELSE {<<>>}
    /\ InitState

NextRead == ReadMasterFile

SpecRead == InitRead /\ [][NextRead]_vars

\* ------------------------------------------------------------ properties
\* rank p launches a reduction in this step
Launch(p) == Len(iallreduce'[p]) = Len(iallreduce[p]) + 1

\* rank p leaves the wait of checkSignals in this step
Applies(p) == pc[p] = "wait" /\ pc'[p] = "dump"

AllDone == \A p \in Ranks : pc[p] = "done"

\* C1: every rank, signalling or not, applies the same agreed step and the
\* same decisions (checkpoint, stop): two ranks never apply different
\* decisions for one round, and when all ranks have finished they have
\* applied the same decisions and hold the same RunTarget.
C1_SignalConsensusAgreement ==
    /\ \A p, q \in Ranks :
         \A i \in 1..Len(applied[p]) : \A j \in 1..Len(applied[q]) :
             applied[p][i].round = applied[q][j].round
                 => applied[p][i] = applied[q][j]
    /\ AllDone => \A p, q \in Ranks :
                      applied[p] = applied[q] /\ runSteps[p] = runSteps[q]

\* C2: RunTarget never exceeds the configured RunTarget.
C2_RunTargetNonIncreasing ==
    \A p \in Ranks : runSteps[p] <= cfgRunSteps

\* C3: once some rank has applied a stop decision with agreed step m, no
\* rank calls runOneStep for a step >= m.
C3_NoStepBeyondAgreedStop ==
    [][\A p \in Ranks :
          (pc[p] = "loop" /\ currentStep'[p] = currentStep[p] + 1)
          => \A q \in Ranks : \A i \in 1..Len(applied[q]) :
                 applied[q][i].stop => currentStep[p] < applied[q][i].step]_vars

\* C4: all ranks leave the run with the same StepCounter.
C4_SameFinalStep ==
    AllDone => \A p, q \in Ranks : currentStep[p] = currentStep[q]

\* rank q is past dumpOneStep of step c[2] in repeat c[1]
PastDump(q, c) ==
    \/ nthSoftRestart[q] > c[1]
    \/ /\ nthSoftRestart[q] = c[1]
       /\ \/ currentStep[q] > c[2]
          \/ currentStep[q] = c[2] /\ pc[q] = "loop"

\* C5: the checkpoint-due decision is the same on all ranks: a step at which
\* one rank began the checkpoint sequence is not passed by another rank
\* without it.
C5_CheckpointDueIdentical ==
    \A p, q \in Ranks : \A c \in ckptAt[p] :
        PastDump(q, c) => c \in ckptAt[q]

\* C6: every rank participates in every reduction: a rank that has finished
\* has contributed to every round any rank launched.
C6_EveryRankParticipates ==
    \A p, q \in Ranks :
        pc[q] = "done" => Len(iallreduce[q]) >= Len(iallreduce[p])

\* C7: a rank has at most one reduction launched and not applied.
C7_NoOverlappingRounds ==
    \A p \in Ranks : Cardinality(outstanding[p]) <= 1

C9_BothRequestsHonoured ==
    [][\A p \in Ranks :
          /\ (Launch(p) /\ gStatusCreateCheckpoint[p]
                /\ gStatusStopSimulation[p])
                 => (signalCreateCheckpoint'[p] /\ signalStopSimulation'[p])
          /\ (Applies(p) /\ signalCreateCheckpoint[p]
                /\ signalStopSimulation[p])
                 => /\ seqCheckpointPeriod'[p] =
                          Append(seqCheckpointPeriod[p],
                                 TimeSlice(signalMaxTimestep'[p],
                                           signalMaxTimestep'[p]))
                    /\ runSteps'[p] = signalMaxTimestep'[p]
                    /\ ~signalCreateCheckpoint'[p]
                    /\ ~signalStopSimulation'[p]]_vars

\* a rank has applied a checkpoint and a stop request in one round
C9_Witness ==
    \E p \in Ranks : \E i \in 1..Len(applied[p]) :
        /\ applied[p][i].checkpoint /\ applied[p][i].stop
        /\ runSteps[p] = applied[p][i].step

\* C10: appending {s, s} makes the checkpoint-due test true for s, keeps
\* every step due that was due, and keeps the existing intervals in place.
C10_AppendMakesDue ==
    [][\A p \in Ranks :
          seqCheckpointPeriod'[p] # seqCheckpointPeriod[p]
          => /\ checkpointDueAt(seqCheckpointPeriod'[p], signalMaxTimestep'[p])
             /\ \A n \in 0..(MaxSteps + 2) :
                    checkpointDueAt(seqCheckpointPeriod[p], n)
                        => checkpointDueAt(seqCheckpointPeriod'[p], n)
             /\ SubSeq(seqCheckpointPeriod'[p], 1, Len(seqCheckpointPeriod[p]))
                    = seqCheckpointPeriod[p]]_vars

\* the steps of the configured period between the start step and RunTarget
PeriodSteps ==
    { n \in fillStep..cfgRunSteps :
          containsStep(toTimeSlice(checkpointPeriod), n) }

\* those of them that dumpOneStep is called for: the start step of a
\* restarted run is not dumped (line 262)
DumpedPeriodSteps ==
    { n \in PeriodSteps : n > fillStep \/ ~restartRequested }

StepsOf(p) == { c[2] : c \in ckptAt[p] }

\* C11 (as claimed): without signals a checkpoint is performed at step n iff
\* n is in the configured period and start <= n <= RunTarget.
C11_CheckpointsAtPeriodSteps ==
    AllDone => \A p \in Ranks : StepsOf(p) = PeriodSteps

\* C11 (amended): without signals a checkpoint is performed at step n iff n
\* is in the configured period and start < n <= RunTarget, or n = start and
\* no restart was requested; every repeat performs them again.  For
\* RunTarget 10 and period "3", from step 0, without repeats, the master file
\* holds 0, 3, 6, 9 and CheckpointCount ends at 4.
C11_ScheduleWithoutSignals ==
    /\ \A p \in Ranks : StepsOf(p) \subseteq DumpedPeriodSteps
    /\ AllDone => \A p \in Ranks :
           /\ ckptAt[p] = (0..softRestarts) \X DumpedPeriodSteps
           /\ numCheckpoints[p] =
                  (softRestarts + 1) * Cardinality(DumpedPeriodSteps)
    /\ (AllDone /\ cfgRunSteps = 10 /\ checkpointPeriod = << <<3>> >>
          /\ ~restartRequested /\ softRestarts = 0)
       => /\ readCheckpointMasterFile(fileExists, masterFile) = <<0, 3, 6, 9>>
          /\ \A p \in Ranks : numCheckpoints[p] = 4

\* the run of RunTarget 10 and period "3" has ended with four checkpoints
C11_Witness ==
    /\ AllDone /\ cfgRunSteps = 10 /\ checkpointPeriod = << <<3>> >>
    /\ ~restartRequested /\ softRestarts = 0
    /\ numCheckpoints[0] = 4

\* rank p completes a checkpoint in this step
Completes(p) == pc[p] = "barrier2" /\ pc'[p] = "loop"

\* the entries of the master file
LogEntries == readCheckpointMasterFile(fileExists, masterFile)

\* C12: CheckpointCount grows by exactly one when a checkpoint is completed
\* and never otherwise, and a rank creates the checkpoint directory at its
\* first checkpoint and never again, whatever the number of checkpoints and
\* repeats.
C12_CountAndDirectoryOnce ==
    [][\A p \in Ranks :
          /\ numCheckpoints'[p] # numCheckpoints[p] => Completes(p)
          /\ Completes(p) => numCheckpoints'[p] = numCheckpoints[p] + 1
          /\ dirCalls'[p] <= 1
          /\ numCheckpoints'[p] >= 1 => dirCalls'[p] = 1
          /\ dirCreations' <= 1
          /\ numCheckpoints'[0] >= 1 => dirCreations' = 1]_vars

\* a rank is in a repeat with three checkpoints done and one directory call
C12_Witness ==
    \E p \in Ranks :
        /\ numCheckpoints[p] >= 3 /\ nthSoftRestart[p] >= 1
        /\ dirCalls[p] = 1 /\ dirCreations = 1

C14_LogByCoordinatorOnly ==
    [][/\ masterFile' # masterFile
          => /\ Completes(0)
             /\ \A q \in Ranks \ {0} : pc'[q] = pc[q]
             /\ masterFile' = AppendLine(masterFile, currentStep[0])
       /\ Completes(0) => masterFile' # masterFile
       /\ Len(LogEntries) = numCheckpoints[0]]_vars

\* both ranks completed two checkpoints, the file holds two entries
C14_Witness ==
    /\ Len(LogEntries) = 2
    /\ \A p \in Ranks : numCheckpoints[p] >= 2

\* C15 (as claimed): once the append has failed the run halts: no rank
\* advances a step, no entry is recorded, no CheckpointCount grows.
C15_RunHaltsOnWriteFailure ==
    [][writeFailed
          => /\ currentStep' = currentStep
             /\ masterFile' = masterFile
             /\ numCheckpoints' = numCheckpoints]_vars

\* C15 (amended): the failure is fatal on the coordinating rank: it leaves
\* the control loop, advances no step, records no entry and does not count
\* the checkpoint; the other ranks count it and go on, but complete no later
\* checkpoint.
C15_CoordinatorHaltsOnWriteFailure ==
    [][writeFailed'
          => /\ pc'[0] = "failed"
             /\ currentStep'[0] = currentStep[0]
             /\ numCheckpoints'[0] = numCheckpoints[0]
             /\ masterFile' = masterFile
             /\ Len(LogEntries) = numCheckpoints[0]
             /\ \A p \in Ranks : numCheckpoints'[p] <= numCheckpoints[0] + 1]_vars

\* after the failure another rank has counted the checkpoint and gone on
C15_Witness ==
    /\ writeFailed
    /\ \E p \in Ranks \ {0} :
           numCheckpoints[p] = numCheckpoints[0] + 1 /\ pc[p] = "notify"

\* the lines of a file that are unsigned integers: digits and nothing else
RECURSIVE UnsignedLines(_, _)
UnsignedLines(lines, acc) ==
    IF lines = <<>> THEN acc
    ELSE LET l == Head(lines)
         IN  IF l # <<>> /\ \A i \in 1..Len(l) : IsDigit(l[i])
             THEN UnsignedLines(Tail(lines), Append(acc, Decimal(l, 0)))
             ELSE UnsignedLines(Tail(lines), acc)

\* C16: the read returns the empty sequence when no file exists, and
\* otherwise exactly the lines that are unsigned integers, in file order;
\* every other line is skipped.
C16_ReadReturnsUnsignedLines ==
    readPc = "read"
        => checkpoints =
               IF fileExists
               THEN UnsignedLines(SplitLines(masterFile, <<>>, <<>>), <<>>)
               ELSE <<>>

\* C17: every append makes the read return the entries read before followed
\* by the appended step, and leaves the text written before in place.
C17_LogRoundTrip ==
    [][masterFile' # masterFile
          => /\ readCheckpointMasterFile(TRUE, masterFile')
                    = Append(LogEntries, currentStep[0])
             /\ Len(masterFile') > Len(masterFile)
             /\ SubSeq(masterFile', 1, Len(masterFile)) = masterFile]_vars

\* a run has appended 0, 5 and the two-digit step 10, and they are read back
C17_Witness ==
    AllDone /\ LogEntries = <<0, 5, 10>>

\* C18: init() runs exactly once; with k soft restarts the cycle fill, run,
\* drain runs exactly k + 1 times; every fill sets currentStep to the value
\* the fill returns; runSteps changes only when a stop decision is applied,
\* never between cycles.
C18_InitOnceCyclesRepeat ==
    [][\A p \in Ranks :
          /\ initCalls'[p] <= 1
          /\ pc'[p] # "start" => initCalls'[p] = 1
          /\ nFills'[p] # nFills[p]
                => /\ currentStep'[p] = fillStep
                   /\ nFills'[p] = nthSoftRestart[p] + 1
          /\ pc'[p] = "done"
                => /\ nFills'[p] = softRestarts + 1
                   /\ nthSoftRestart'[p] = softRestarts + 1
          /\ runSteps'[p] # runSteps[p] => Applies(p)
          /\ nFills'[p] # nFills[p] => runSteps'[p] = runSteps[p]]_vars

\* a rank is done after two cycles, with the runSteps a stop decision set in
\* the first cycle
C18_Witness ==
    \E p \in Ranks :
        /\ pc[p] = "done" /\ softRestarts = 1 /\ nFills[p] = 2
        /\ runSteps[p] # cfgRunSteps
        /\ \E i \in 1..Len(applied[p]) : applied[p][i].stop

\* t is the beginning of o
IsPrefix(t, o) == Len(t) <= Len(o) /\ SubSeq(o, 1, Len(t)) = t

\* the order of an iteration of the loop according to the claim
ClaimedOrder ==
    <<"runOneStep", "increment", "dumpOneStep", "checkSignals", "notifyPlugins">>

\* the order of an iteration of the loop in lines 277-298 and 134-141
LoopOrder ==
    <<"runOneStep", "increment", "notifyPlugins", "checkSignals", "dumpOneStep">>

\* rank p is in or after an iteration of the loop
InIteration(p) == trace[p] # <<>> /\ trace[p][1] = "runOneStep"

\* C19 (as claimed): in every iteration the order is advance one step,
\* increment, checkpoint test and sequence, signal step, notification hooks.
C19_CheckpointBeforeSignalsAndPlugins ==
    \A p \in Ranks : InIteration(p) => IsPrefix(trace[p], ClaimedOrder)

\* C19 (amended): in every iteration the order is advance one step,
\* increment, notification hooks, signal step, checkpoint test and sequence.
C19_PluginsSignalsThenCheckpoint ==
    \A p \in Ranks :
        InIteration(p)
            => /\ IsPrefix(trace[p], LoopOrder)
               /\ pc[p] \in {"loop", "fill", "done"} => trace[p] = LoopOrder

\* an iteration with a checkpoint has ended
C19_Witness ==
    \E p \in Ranks :
        /\ pc[p] = "loop" /\ trace[p] = LoopOrder
        /\ <<nthSoftRestart[p], currentStep[p]>> \in ckptAt[p]

Serialized(q, c) ==
    /\ c \in ckptAt[q]
    /\ ~(pc[q] = "barrier1" /\ c = <<nthSoftRestart[q], currentStep[q]>>)

\* C21: the log append comes after the second barrier of the checkpoint
\* sequence, so whenever the master file holds an entry for step n, every
\* rank has returned from checkpointPlugins for step n.
C21_LogEntryAfterAllSerialized ==
    \A i \in 1..Len(LogEntries) : \A q \in Ranks :
        \E c \in ckptAt[q] : c[2] = LogEntries[i] /\ Serialized(q, c)

\* C22: a rank that has applied a checkpoint request with agreed step m
\* performs the checkpoint sequence when it calls dumpOneStep at step m,
\* whatever the configured period.
C22_AppliedCheckpointIsDumped ==
    [][\A p \in Ranks :
          (/\ pc[p] = "dump" /\ pc'[p] # "dump"
           /\ \E i \in 1..Len(applied[p]) :
                  applied[p][i].checkpoint /\ applied[p][i].step = currentStep[p])
          => pc'[p] = "barrier1"]_vars

\* rank p has left the while loop of a cycle
LoopEnded(p) == pc[p] = "done" \/ (pc[p] = "fill" /\ nthSoftRestart[p] >= 1)

\* C23: when a rank has left the loop, no reduction it launched is
\* outstanding and both request flags are false.
C23_NoRoundLeftAtLoopEnd ==
    \A p \in Ranks :
        LoopEnded(p)
            => /\ outstanding[p] = {}
               /\ ~signalCreateCheckpoint[p]
               /\ ~signalStopSimulation[p]
====
